---- MODULE Spec2Model ----
(***************************************************************************)
(* Claude Jail: the session registry (SessionManager), the query           *)
(* orchestrator (SessionManager.process_query) and the websocket           *)
(* connection loop (ClaudeJailServer), as one state machine.               *)
(*                                                                         *)
(* Scheduling is asyncio's: one thread, tasks interleave only at awaits    *)
(* that really suspend.  Each action below is the code between two such    *)
(* suspension points.  `await session.close()` does not suspend (close has *)
(* no await in it), so close_session and one idle sweep are atomic.        *)
(***************************************************************************)
EXTENDS Integers, Sequences, FiniteSets, TLC

\* ------------------------------------------------------------- bounds
MaxTime == 1        \* the clock stops advancing here
IdleTimeout == 0    \* SessionManager.idle_timeout, in clock ticks
MaxBlocks == 2      \* text and tool blocks the engine produces for one process_query

\* ------------------------------------------------------------- values
None == "None"      \* Python's None
Empty == ""         \* the empty string

Channels == {"C1", "C2"}
Workspaces == {"W1", "W2"}
QueryIds == {"q1", "q2"}
Tokens == {"s1", "s2"}
ResumeIds == {None} \cup Tokens

Procs == {"p1", "p2"}        \* process_query invocations (async generators)
Conns == {"k1"}              \* websocket connections
Api == "api"                 \* a consumer that iterates process_query itself

\* Object identities.  A channel's records live at addresses of their own, so
\* that an address says nothing but which record it is.
NoRef == 0
Slots(c) == {(IF c = "C1" THEN 10 ELSE 20) + k : k \in 1 .. (1 + Cardinality(Procs))}
ObjIds == UNION {Slots(c) : c \in Channels}

\* ------------------------------------------------------------- state
VARIABLES
  now,                \* time.time()
  sessions,           \* SessionManager.sessions: channel_id -> ChannelSession
  heap,               \* the live ChannelSession objects, by identity
  phase,              \* the server's lifecycle: _cleanup_task and the progress of stop()
  pc,                 \* where each process_query generator is suspended
  owner,              \* who iterates the generator: a connection or Api
  query_id,           \* process_query's query_id argument
  channel_id,         \* process_query's channel_id argument
  session,            \* process_query's local `session`
  result_session_id,  \* process_query's local `result_session_id`
  pending,            \* blocks of message.content the for loop has yet to visit
  out,                \* the messages the generator has yielded, in order
  seen,               \* the text and tool blocks the engine has produced, in order
  reported,           \* the last non-empty token the engine has reported, if any
  started,            \* the session_id the query's session held when the query started
  to_close,           \* _cleanup_idle_sessions' local `to_close`: the channel ids it
                      \* has yet to pop, each with the last_activity its session had
                      \* when the list was built; empty between sweeps
  conn,               \* each connection: "closed", "open" or "busy"
  written,            \* what websocket.send has written on each connection
  queriesRead,        \* well-formed Query frames read on each connection
  returned,           \* per channel: what get_or_create_session last returned,
                      \* NoRef once that channel's entry has been removed
  call                \* what the last step called, with what, and which
                      \* sessions it closed

vars == <<now, sessions, heap, phase, pc, owner, query_id, channel_id, session,
          result_session_id, pending, out, seen, reported, started, to_close, conn,
          written, queriesRead, returned, call>>

genVars == <<pc, owner, query_id, channel_id, session, result_session_id,
             pending, out, seen, reported, started>>
connVars == <<conn, written, queriesRead>>

\* ------------------------------------------------------------- protocol.py
TextMessage(q, c, content) ==
  [type |-> "text", query_id |-> q, channel_id |-> c, body |-> content]

ToolUseMessage(q, c, tool) ==
  [type |-> "tool_use", query_id |-> q, channel_id |-> c, body |-> tool]

DoneMessage(q, c, sid) ==
  [type |-> "done", query_id |-> q, channel_id |-> c, body |-> sid]

ErrorMessage(q, c, msg) ==
  [type |-> "error", query_id |-> q, channel_id |-> c, body |-> msg]

IsTerminal(m) == m.type \in {"done", "error"}

\* ------------------------------------------------------------- engine events
TextBlock(t) == [block |-> "TextBlock", v |-> t]
ToolUseBlock(t) == [block |-> "ToolUseBlock", v |-> t]
ThinkingBlock == [block |-> "ThinkingBlock", v |-> "hm"]

Blocks == {TextBlock("a"), ToolUseBlock("t"), ThinkingBlock}

Contents == UNION {[1 .. n -> Blocks] : n \in 0 .. MaxBlocks}

AssistantMessage(content) ==
  [msg |-> "AssistantMessage", content |-> content, session_id |-> Empty]

ResultMessage(sid) ==
  [msg |-> "ResultMessage", content |-> <<>>, session_id |-> sid]

SystemMessage ==
  [msg |-> "SystemMessage", content |-> <<>>, session_id |-> Empty]

\* The blocks the protocol relays: text fragments and tool invocations.
TextOrTool(b) == b.block = "TextBlock" \/ b.block = "ToolUseBlock"

EngineMessages ==
  {AssistantMessage(c) : c \in Contents}
    \cup {ResultMessage(s) : s \in {Empty} \cup Tokens}
    \cup {SystemMessage}

\* ------------------------------------------------------------- helpers
Truthy(s) == s # None /\ s # Empty

Or(a, b) == IF Truthy(a) THEN a ELSE b

Live(sess, refs) ==
  ({sess[c] : c \in Channels} \cup {refs[p] : p \in Procs}) \ {NoRef}

\* Objects nobody references any more are gone.
Collect(h, sess, refs) == [o \in DOMAIN h \cap Live(sess, refs) |-> h[o]]

NewRef(h, c) == CHOOSE o \in Slots(c) \ DOMAIN h : \A x \in Slots(c) \ DOMAIN h : o <= x

NoCall == [op |-> "none", proc |-> "", query_id |-> "", channel_id |-> "",
           workspace |-> "", resume_id |-> None, reused |-> FALSE, closed |-> {},
           data |-> <<>>, message |-> <<>>, options |-> <<>>]

\* The step called `op` on behalf of `who` and closed the sessions `closed`.
Called(op, who, c, closed) ==
  [NoCall EXCEPT !.op = op, !.proc = who, !.channel_id = c, !.closed = closed]

\* ------------------------------------------------------------- session.py
\* Path(workspace): pathlib drops a trailing slash.
Path(w) == IF w = "W2/" THEN "W2" ELSE w

ChannelSession(c, w, r) ==
  [channel_id |-> c, workspace |-> Path(w), last_activity |-> now, session_id |-> r]

touch(h, o) == [h EXCEPT ![o].last_activity = now]

get_or_create_always_new(c, w, r) ==
  LET o == NewRef(heap, c)
  IN [sessions |-> [sessions EXCEPT ![c] = o],
      heap |-> [x \in DOMAIN heap \cup {o} |->
                  IF x = o THEN ChannelSession(c, w, r) ELSE heap[x]],
      ret |-> o]

get_or_create_adopts_resume(c, w, r) ==
  IF sessions[c] # NoRef
  THEN [sessions |-> sessions,
        heap |-> [touch(heap, sessions[c]) EXCEPT
                    ![sessions[c]].session_id = IF r # None THEN r ELSE @],
        ret |-> sessions[c]]
  ELSE get_or_create_always_new(c, w, r)

get_or_create_forgets_resume(c, w, r) ==
  IF sessions[c] # NoRef
  THEN [sessions |-> sessions, heap |-> touch(heap, sessions[c]), ret |-> sessions[c]]
  ELSE get_or_create_always_new(c, w, None)

get_or_create_session(c, w, r) ==
  IF sessions[c] # NoRef
  THEN [sessions |-> sessions, heap |-> touch(heap, sessions[c]), ret |-> sessions[c]]
  ELSE LET o == NewRef(heap, c)
       IN [sessions |-> [sessions EXCEPT ![c] = o],
           heap |-> [x \in DOMAIN heap \cup {o} |->
                       IF x = o THEN ChannelSession(c, w, r) ELSE heap[x]],
           ret |-> o]

Init ==
  /\ now = 0
  /\ sessions = [c \in Channels |-> NoRef]
  /\ heap = <<>>
  /\ phase = "new"
  /\ pc = [p \in Procs |-> "idle"]
  /\ owner = [p \in Procs |-> Api]
  /\ query_id = [p \in Procs |-> Empty]
  /\ channel_id = [p \in Procs |-> Empty]
  /\ session = [p \in Procs |-> NoRef]
  /\ result_session_id = [p \in Procs |-> Empty]
  /\ pending = [p \in Procs |-> <<>>]
  /\ out = [p \in Procs |-> <<>>]
  /\ seen = [p \in Procs |-> <<>>]
  /\ reported = [p \in Procs |-> Empty]
  /\ started = [p \in Procs |-> None]
  /\ to_close = <<>>
  /\ conn = [k \in Conns |-> "closed"]
  /\ written = [k \in Conns |-> <<>>]
  /\ queriesRead = [k \in Conns |-> 0]
  /\ returned = [c \in Channels |-> NoRef]
  /\ call = NoCall

\* ------------------------------------------------------------- process_query
IsYieldableTextOnly(b) == b.block = "TextBlock"

\* isinstance(block, TextBlock) or isinstance(block, ToolUseBlock)
IsYieldable(b) == b.block \in {"TextBlock", "ToolUseBlock"}

RelayBlockSwapped(q, c, b) ==
  IF b.block = "TextBlock" THEN TextMessage(c, q, b.v) ELSE ToolUseMessage(c, q, b.v)

\* The outbound message process_query builds for one content block.
RelayBlock(q, c, b) ==
  IF b.block = "TextBlock" THEN TextMessage(q, c, b.v) ELSE ToolUseMessage(q, c, b.v)

\* Index of the first block of `blocks` that makes the for loop yield, 0 if none.
RECURSIVE NextYield(_)
NextYield(blocks) ==
  IF blocks = <<>> THEN 0
  ELSE IF IsYieldable(Head(blocks)) THEN 1
  ELSE LET i == NextYield(Tail(blocks)) IN IF i = 0 THEN 0 ELSE i + 1

DoneSessionIdOwnOnly(rsid, sid) == Or(rsid, Empty)

\* `result_session_id or session.session_id or ""`
DoneSessionId(rsid, sid) == Or(Or(rsid, sid), Empty)

\* A yield hands `m` to the consumer; a connection's consumer sends it at once.
Emit(p, m) ==
  /\ out' = [out EXCEPT ![p] = Append(@, m)]
  /\ written' = IF owner[p] \in Conns
                THEN [written EXCEPT ![owner[p]] = Append(@, m)]
                ELSE written

\* Run `for block in message.content` over `blocks` up to its next yield.
RunBlocks(p, blocks) ==
  LET i == NextYield(blocks)
  IN IF i = 0
     THEN /\ pc' = [pc EXCEPT ![p] = "engine"]
          /\ pending' = [pending EXCEPT ![p] = <<>>]
          /\ UNCHANGED <<out, written>>
     ELSE /\ pc' = [pc EXCEPT ![p] = "yield"]
          /\ pending' = [pending EXCEPT ![p] = SubSeq(blocks, i + 1, Len(blocks))]
          /\ Emit(p, RelayBlock(query_id[p], channel_id[p], blocks[i]))

\* The parameters process_query needs bound by its caller.
RequiredParams == {"query_id", "channel_id", "workspace", "prompt"}

\* Calling process_query(**kwargs): binds, or raises TypeError.
Binds(kwargs) == RequiredParams \subseteq DOMAIN kwargs

OptionsFromRequest(sess, w, r) == [cwd |-> Path(w), resume |-> r]

\* ClaudeCodeOptions(cwd=session.workspace, resume=session.session_id, ...)
Options(sess, w, r) == [cwd |-> sess.workspace, resume |-> sess.session_id]

StartQueryOneAtATime(p, who, q, c, w, r) ==
  /\ \A x \in Procs : pc[x] = "idle"
  /\ pc' = [pc EXCEPT ![p] = "engine"]
  /\ owner' = [owner EXCEPT ![p] = who]
  /\ query_id' = [query_id EXCEPT ![p] = q]
  /\ channel_id' = [channel_id EXCEPT ![p] = c]
  /\ session' = [session EXCEPT ![p] = get_or_create_session(c, w, r).ret]
  /\ result_session_id' = [result_session_id EXCEPT ![p] = Empty]
  /\ sessions' = get_or_create_session(c, w, r).sessions
  /\ heap' = get_or_create_session(c, w, r).heap
  /\ returned' = [returned EXCEPT ![c] = session'[p]]
  /\ started' = [started EXCEPT ![p] = heap'[session'[p]].session_id]
  /\ call' = [NoCall EXCEPT !.op = "process_query", !.proc = p, !.query_id = q,
                             !.channel_id = c, !.workspace = w, !.resume_id = r,
                             !.reused = (sessions[c] # NoRef)]
  /\ UNCHANGED <<pending, out, seen, reported>>

\* The call and the generator's first step: everything up to the first wait
\* on the engine (get_or_create_session, touch, options).
StartQuery(p, who, q, c, w, r) ==
  LET g == get_or_create_session(c, w, r)
  IN /\ pc[p] = "idle"
     /\ pc' = [pc EXCEPT ![p] = "engine"]
     /\ owner' = [owner EXCEPT ![p] = who]
     /\ query_id' = [query_id EXCEPT ![p] = q]
     /\ channel_id' = [channel_id EXCEPT ![p] = c]
     /\ session' = [session EXCEPT ![p] = g.ret]
     /\ result_session_id' = [result_session_id EXCEPT ![p] = Empty]
     /\ sessions' = g.sessions
     /\ heap' = touch(g.heap, g.ret)
     /\ returned' = [returned EXCEPT ![c] = g.ret]
     /\ started' = [started EXCEPT ![p] = g.heap[g.ret].session_id]
     /\ call' = [NoCall EXCEPT !.op = "process_query", !.proc = p, !.query_id = q,
                                !.channel_id = c, !.workspace = w, !.resume_id = r,
                                !.reused = (sessions[c] # NoRef),
                                !.options = Options(g.heap[g.ret], w, r)]
     /\ UNCHANGED <<pending, out, seen, reported>>

\* A consumer other than the server iterates process_query(q, c, w, prompt, r).
ProcessQuery(p, q, c, w, r) ==
  /\ phase # "new"
  /\ Binds([query_id |-> q, channel_id |-> c, workspace |-> w,
            prompt |-> "hello", resume_id |-> r])
  /\ StartQuery(p, Api, q, c, w, r)
  /\ UNCHANGED <<to_close, now, phase, connVars>>

KeepFirstToken(rsid, m) ==
  IF m.msg = "ResultMessage" /\ Truthy(m.session_id) /\ ~Truthy(rsid)
  THEN m.session_id ELSE rsid

\* The token process_query holds after message m: a ResultMessage with a
\* non-empty session_id replaces it.
TokenAfter(rsid, m) ==
  IF m.msg = "ResultMessage" /\ Truthy(m.session_id) THEN m.session_id ELSE rsid

\* `async for message in query(...)` receives `m`.
EngineMessage(p, m) ==
  /\ pc[p] = "engine"
  /\ Len(seen[p]) + Len(SelectSeq(m.content, TextOrTool)) <= MaxBlocks
  /\ seen' = [seen EXCEPT ![p] = @ \o SelectSeq(m.content, TextOrTool)]
  /\ reported' = [reported EXCEPT ![p] =
                    IF m.msg = "ResultMessage" /\ Truthy(m.session_id)
                    THEN m.session_id ELSE @]
  /\ IF m.msg = "AssistantMessage"
     THEN /\ RunBlocks(p, m.content)
          /\ UNCHANGED <<result_session_id, heap>>
     ELSE IF m.msg = "ResultMessage" /\ Truthy(m.session_id)
     THEN /\ result_session_id' = [result_session_id EXCEPT ![p] = TokenAfter(@, m)]
          /\ heap' = [heap EXCEPT ![session[p]].session_id =
                                   TokenAfter(result_session_id[p], m)]
          /\ UNCHANGED <<pc, pending, out, written>>
     ELSE UNCHANGED <<pc, pending, out, written, result_session_id, heap>>
  /\ call' = NoCall
  /\ UNCHANGED <<to_close, now, sessions, phase, owner, query_id, channel_id, session,
                 started, conn, queriesRead, returned>>

EngineEndRestores(p) ==
  /\ pc[p] = "engine"
  /\ pc' = [pc EXCEPT ![p] = "done"]
  /\ Emit(p, DoneMessage(query_id[p], channel_id[p],
                         DoneSessionId(result_session_id[p],
                                       heap[session[p]].session_id)))
  /\ sessions' = [sessions EXCEPT ![channel_id[p]] = session[p]]
  /\ call' = NoCall
  /\ UNCHANGED <<to_close, now, heap, phase, owner, query_id, channel_id,
                 session, result_session_id, pending, seen, reported, started, conn,
                 queriesRead, returned>>

\* The engine's stream is exhausted: yield DoneMessage.
EngineEnd(p) ==
  /\ pc[p] = "engine"
  /\ pc' = [pc EXCEPT ![p] = "done"]
  /\ Emit(p, DoneMessage(query_id[p], channel_id[p],
                         DoneSessionId(result_session_id[p],
                                       heap[session[p]].session_id)))
  /\ call' = NoCall
  /\ UNCHANGED <<to_close, now, sessions, heap, phase, owner, query_id, channel_id,
                 session, result_session_id, pending, seen, reported, started, conn,
                 queriesRead, returned>>

\* The generator returns: its frame, and with it its locals, is gone.
Return(p) ==
  /\ pc' = [pc EXCEPT ![p] = "idle"]
  /\ owner' = [owner EXCEPT ![p] = Api]
  /\ query_id' = [query_id EXCEPT ![p] = Empty]
  /\ channel_id' = [channel_id EXCEPT ![p] = Empty]
  /\ session' = [session EXCEPT ![p] = NoRef]
  /\ result_session_id' = [result_session_id EXCEPT ![p] = Empty]
  /\ pending' = [pending EXCEPT ![p] = <<>>]
  /\ out' = [out EXCEPT ![p] = <<>>]
  /\ seen' = [seen EXCEPT ![p] = <<>>]
  /\ reported' = [reported EXCEPT ![p] = Empty]
  /\ started' = [started EXCEPT ![p] = None]
  /\ heap' = Collect(heap, sessions, session')
  /\ conn' = IF owner[p] \in Conns THEN [conn EXCEPT ![owner[p]] = "open"] ELSE conn

EngineRaiseUncaught(p) ==
  /\ pc[p] = "engine"
  /\ Return(p)
  /\ call' = NoCall
  /\ UNCHANGED <<to_close, now, sessions, phase, written, queriesRead, returned>>

EngineRaiseYieldsDone(p) ==
  /\ pc[p] = "engine"
  /\ pc' = [pc EXCEPT ![p] = "done"]
  /\ Emit(p, DoneMessage(query_id[p], channel_id[p], Empty))
  /\ call' = Called("engine_raised", p, channel_id[p], {})
  /\ UNCHANGED <<to_close, now, sessions, heap, phase, owner, query_id, channel_id,
                 session, result_session_id, pending, seen, reported, started, conn,
                 queriesRead, returned>>

\* The engine raises: `except Exception` yields ErrorMessage.
EngineRaise(p) ==
  /\ pc[p] = "engine"
  /\ pc' = [pc EXCEPT ![p] = "error"]
  /\ Emit(p, ErrorMessage(query_id[p], channel_id[p], "engine failed"))
  /\ call' = Called("engine_raised", p, channel_id[p], {})
  /\ UNCHANGED <<to_close, now, sessions, heap, phase, owner, query_id, channel_id,
                 session, result_session_id, pending, seen, reported, started, conn,
                 queriesRead, returned>>

\* The consumer asks for the next message: the generator runs on from its yield,
\* to the next yield, to the next wait on the engine, or (after done or error)
\* to its end.
Resume(p) ==
  /\ pc[p] \in {"yield", "done", "error"}
  /\ IF pc[p] = "yield"
     THEN /\ RunBlocks(p, pending[p])
          /\ UNCHANGED <<owner, query_id, channel_id, session, result_session_id,
                         seen, reported, started, heap, conn>>
     ELSE /\ Return(p)
          /\ UNCHANGED written
  /\ call' = NoCall
  /\ UNCHANGED <<to_close, now, sessions, phase, queriesRead, returned>>

\* ------------------------------------------------------------- registry
CloseSuspendsAlways == TRUE

CloseYields == TRUE

\* ChannelSession.close has no await in it: `await session.close()` runs it to
\* its end without handing control to the event loop.
CloseSuspends == FALSE

\* The sessions a step closes when it pops the entries of `chans`.
Popped(chans) == {sessions[c] : c \in chans} \ {NoRef}

close_session_keeps_entry(who, c) ==
  /\ UNCHANGED <<sessions, heap, returned>>
  /\ call' = Called("close_session", who, c, Popped({c}))

close_session_frees_record(who, c) ==
  /\ sessions' = [sessions EXCEPT ![c] = NoRef]
  /\ heap' = [o \in DOMAIN heap \ {sessions[c]} |-> heap[o]]
  /\ returned' = [returned EXCEPT ![c] = NoRef]
  /\ call' = Called("close_session", who, c, Popped({c}))

close_session_closes_all(who, c) ==
  /\ sessions' = [d \in Channels |-> NoRef]
  /\ heap' = Collect(heap, sessions', session)
  /\ returned' = [d \in Channels |-> NoRef]
  /\ call' = Called("close_session", who, c, Popped(Channels))

\* close_session(c) on behalf of `who`: pop the entry, if any, and close it.
close_session(who, c) ==
  /\ sessions' = [sessions EXCEPT ![c] = NoRef]
  /\ heap' = Collect(heap, sessions', session)
  /\ returned' = [returned EXCEPT ![c] = NoRef]
  /\ call' = Called("close_session", who, c, Popped({c}))

\* A direct call of SessionManager.close_session.
CloseSession(c) ==
  /\ close_session(Api, c)
  /\ UNCHANGED <<to_close, now, phase, genVars, connVars>>

\* time.time() moves on.
Tick ==
  /\ now < MaxTime
  /\ now' = now + 1
  /\ call' = NoCall
  /\ UNCHANGED <<to_close, sessions, heap, phase, genVars, connVars, returned>>

ReaperAliveWhenQuiet ==
  phase \in {"running", "closing"} /\ \A p \in Procs : pc[p] = "idle"

\* The idle reaper is between two sweeps (asleep in _cleanup_loop).
ReaperAlive == phase \in {"running", "closing"}

IdleChannelsInclusive ==
  {c \in Channels :
     sessions[c] # NoRef /\ now - heap[sessions[c]].last_activity >= IdleTimeout}

\* _cleanup_idle_sessions: the channel ids whose sessions are idle now.
IdleChannels ==
  {c \in Channels :
     sessions[c] # NoRef /\ now - heap[sessions[c]].last_activity > IdleTimeout}

\* `for channel_id in to_close`: pop and close the sessions of `chans`, and
\* leave `rest` for after the next suspension.
SweepPop(chans, rest) ==
  /\ sessions' = [c \in Channels |-> IF c \in chans THEN NoRef ELSE sessions[c]]
  /\ heap' = Collect(heap, sessions', session)
  /\ returned' = [c \in Channels |-> IF c \in chans THEN NoRef ELSE returned[c]]
  /\ to_close' = rest
  /\ call' = Called("sweep", "reaper", Empty, Popped(chans))

\* What is left of the reaper's task after an exception left _cleanup_loop,
\* which has no try around the sweep.
KeyError == [x \in {"KeyError"} |-> 0]

\* `self.sessions.pop(channel_id)` has no default: a channel that is no longer
\* in the registry raises KeyError out of the sweep and out of the loop.
SweepRaises ==
  /\ to_close' = KeyError
  /\ call' = Called("sweep_raised", "reaper", Empty, {})
  /\ UNCHANGED <<sessions, heap, returned>>

\* The reaper runs: a new sweep when it wakes from its sleep, the rest of the
\* for loop when it comes back from a close that suspended.
CleanupIdleSessions ==
  /\ ReaperAlive
  /\ to_close # KeyError
  /\ IF to_close = <<>>
     THEN LET idle == IdleChannels
              seenAt == [c \in idle |-> heap[sessions[c]].last_activity]
          IN IF CloseSuspends /\ idle # {}
             THEN \E c \in idle : SweepPop({c}, [x \in idle \ {c} |-> seenAt[x]])
             ELSE SweepPop(idle, <<>>)
     ELSE \E c \in DOMAIN to_close :
            IF sessions[c] = NoRef
            THEN SweepRaises
            ELSE IF CloseSuspends
            THEN SweepPop({c}, [x \in DOMAIN to_close \ {c} |-> to_close[x]])
            ELSE SweepPop(DOMAIN to_close, <<>>)
  /\ UNCHANGED <<now, phase, genVars, connVars>>

\* ------------------------------------------------------------- server.py
\* ClaudeJailServer.start: the session manager's reaper, then the listener.
ServerStart ==
  /\ phase = "new"
  /\ phase' = "running"
  /\ call' = NoCall
  /\ UNCHANGED <<to_close, now, sessions, heap, genVars, connVars, returned>>

\* ClaudeJailServer.stop, up to `await self._server.wait_closed()`.
ServerClose ==
  /\ phase = "running"
  /\ \A k \in Conns : conn[k] # "busy"
  /\ phase' = "closing"
  /\ conn' = [k \in Conns |-> "closed"]
  /\ call' = NoCall
  /\ UNCHANGED <<to_close, now, sessions, heap, genVars, written, queriesRead, returned>>

\* SessionManager.stop, up to `await self._cleanup_task`.
StopCancel ==
  /\ phase = "closing"
  /\ phase' = "cancelled"
  /\ to_close' = <<>>
  /\ call' = NoCall
  /\ UNCHANGED <<now, sessions, heap, genVars, connVars, returned>>

StopClearKeepsEntries ==
  /\ phase = "cancelled"
  /\ phase' = "stopped"
  /\ call' = Called("stop", Api, Empty, Popped(Channels))
  /\ UNCHANGED <<to_close, now, sessions, heap, genVars, connVars, returned>>

\* SessionManager.stop, the rest: close every session, clear the registry.
StopClear ==
  /\ phase = "cancelled"
  /\ phase' = "stopped"
  /\ sessions' = [c \in Channels |-> NoRef]
  /\ heap' = Collect(heap, sessions', session)
  /\ returned' = [c \in Channels |-> NoRef]
  /\ call' = Called("stop", Api, Empty, Popped(Channels))
  /\ UNCHANGED <<to_close, now, genVars, connVars>>

\* JSON values, as json.loads returns them.
Str(s) == [t |-> "str", s |-> s]
Num(s) == [t |-> "int", s |-> s]
Null == [t |-> "NoneType", s |-> None]

IsStr(v) == v.t = "str"

\* data.get(key)
Get(data, key) == IF key \in DOMAIN data THEN data[key] ELSE Null

Rejected == [kind |-> "ValueError", query_id |-> Empty, channel_id |-> Empty,
             workspace |-> Empty, prompt |-> Empty, session_id |-> None]

\* QueryMessage.model_validate(data)
QueryMessage(data) ==
  IF /\ \A f \in {"query_id", "channel_id", "workspace", "prompt"} :
          f \in DOMAIN data /\ IsStr(data[f])
     /\ Get(data, "session_id").t \in {"str", "NoneType"}
  THEN [kind |-> "query", query_id |-> data["query_id"].s,
        channel_id |-> data["channel_id"].s, workspace |-> data["workspace"].s,
        prompt |-> data["prompt"].s, session_id |-> Get(data, "session_id").s]
  ELSE Rejected

\* CloseSessionMessage.model_validate(data)
CloseSessionMessage(data) ==
  IF "channel_id" \in DOMAIN data /\ IsStr(data["channel_id"])
  THEN [kind |-> "close_session", query_id |-> Empty,
        channel_id |-> data["channel_id"].s, workspace |-> Empty,
        prompt |-> Empty, session_id |-> None]
  ELSE Rejected

parse_inbound_by_shape(data) ==
  IF QueryMessage(data) # Rejected THEN QueryMessage(data)
  ELSE CloseSessionMessage(data)

parse_inbound(data) ==
  LET msg_type == Get(data, "type")
  IN IF msg_type = Str("query") THEN QueryMessage(data)
     ELSE IF msg_type = Str("close_session") THEN CloseSessionMessage(data)
     ELSE Rejected

\* The JSON objects a caller may hand to parse_inbound: every field absent,
\* well typed or mistyped.
Absent == [t |-> "absent", s |-> None]

Fields == {"type", "query_id", "channel_id", "workspace", "prompt", "session_id"}

Object(full) == [f \in {x \in Fields : full[x] # Absent} |-> full[f]]

Objects ==
  {Object(full) :
     full \in [type : {Absent, Str("query"), Str("close_session"), Str("bogus"), Num("1")},
               query_id : {Absent, Null, Str("q1"), Num("7")},
               channel_id : {Absent, Str("C1"), Num("7")},
               workspace : {Absent, Str("W1")},
               prompt : {Absent, Str("hello")},
               session_id : {Absent, Null, Str("s1"), Num("7")}]}

\* A caller decodes one object: parse_inbound(data).
ParseInbound(data) ==
  /\ call' = [NoCall EXCEPT !.op = "parse_inbound", !.data = data,
                            !.message = parse_inbound(data)]
  /\ UNCHANGED <<to_close, now, sessions, heap, phase, genVars, connVars, returned>>

\* The frames a peer sends: text that is not JSON, JSON that is no object, objects.
QueryFrame(q, c, w) ==
  [json |-> "object",
   data |-> [type |-> Str("query"), query_id |-> Str(q), channel_id |-> Str(c),
             workspace |-> Str(w), prompt |-> Str("hello")]]

Frames ==
  {[json |-> "invalid", data |-> <<>>], [json |-> "array", data |-> <<>>],
   [json |-> "object", data |-> <<>>],
   [json |-> "object", data |-> [type |-> Str("bogus")]],
   [json |-> "object", data |-> [type |-> Str("close_session")]],
   [json |-> "object",
    data |-> [type |-> Str("query"), channel_id |-> Str("C1"),
              workspace |-> Str("W1"), prompt |-> Str("hello")]],
   [json |-> "object",
    data |-> [type |-> Str("query"), query_id |-> Str("q1"), channel_id |-> Num("7"),
              workspace |-> Str("W1"), prompt |-> Str("hello")]],
   [json |-> "object",
    data |-> [type |-> Str("query"), query_id |-> Str("q1"), channel_id |-> Str("C1"),
              workspace |-> Str("W1"), prompt |-> Str("hello"),
              session_id |-> Str("s1")]]}
    \cup {QueryFrame(q, c, "W1") : q \in QueryIds, c \in Channels}
    \cup {[json |-> "object",
           data |-> [type |-> Str("close_session"), channel_id |-> Str(c)]] :
            c \in Channels}

\* The keyword arguments _handle_query passes to process_query.
HandleQueryKwargs(message) ==
  [channel_id |-> message.channel_id, workspace |-> message.workspace,
   prompt |-> message.prompt, resume_id |-> message.session_id]

\* websockets.serve accepts a connection and runs _handle_connection on it.
Accept(k) ==
  /\ phase = "running"
  /\ conn[k] = "closed"
  /\ conn' = [conn EXCEPT ![k] = "open"]
  /\ written' = [written EXCEPT ![k] = <<>>]
  /\ queriesRead' = [queriesRead EXCEPT ![k] = 0]
  /\ call' = NoCall
  /\ UNCHANGED <<to_close, now, sessions, heap, phase, genVars, returned>>

\* The peer goes away while the loop waits for the next frame.
Disconnect(k) ==
  /\ conn[k] = "open"
  /\ conn' = [conn EXCEPT ![k] = "closed"]
  /\ call' = NoCall
  /\ UNCHANGED <<to_close, now, sessions, heap, phase, genVars, written, queriesRead, returned>>

\* _handle_connection reads frame f and runs _handle_message on it, up to the
\* first suspension: the next read, or the first wait inside process_query.
HandleMessage(k, f) ==
  /\ conn[k] = "open"
  /\ IF f.json = "invalid"
     THEN \* json.JSONDecodeError: logged, the loop reads on
          /\ call' = Called("malformed", k, Empty, {})
          /\ UNCHANGED <<sessions, heap, genVars, connVars, returned>>
     ELSE IF f.json = "array"
     THEN \* data.get raises AttributeError, which only _handle_connection catches
          /\ conn' = [conn EXCEPT ![k] = "closed"]
          /\ call' = Called("malformed", k, Empty, {})
          /\ UNCHANGED <<sessions, heap, genVars, written, queriesRead, returned>>
     ELSE LET message == parse_inbound(f.data)
          IN IF message.kind = "ValueError"
             THEN /\ call' = Called("malformed", k, Empty, {})
                  /\ UNCHANGED <<sessions, heap, genVars, connVars, returned>>
             ELSE IF message.kind = "close_session"
             THEN /\ close_session(k, message.channel_id)
                  /\ UNCHANGED <<genVars, connVars>>
             ELSE LET kwargs == HandleQueryKwargs(message)
                  IN /\ queriesRead' = [queriesRead EXCEPT ![k] = @ + 1]
                     /\ UNCHANGED written
                     /\ IF Binds(kwargs)
                        THEN /\ conn' = [conn EXCEPT ![k] = "busy"]
                             /\ \E p \in Procs :
                                  StartQuery(p, k, kwargs.query_id, kwargs.channel_id,
                                             kwargs.workspace, kwargs.resume_id)
                        ELSE \* TypeError, which only _handle_connection catches
                             /\ conn' = [conn EXCEPT ![k] = "closed"]
                             /\ call' = Called("query", k, message.channel_id, {})
                             /\ UNCHANGED <<sessions, heap, genVars, returned>>
  /\ UNCHANGED <<to_close, now, phase>>

\* ------------------------------------------------------------- specifications
\* Callers give each query in flight an id of its own.
QueryOf == [p \in Procs |-> IF p = "p1" THEN "q1" ELSE "q2"]

\* One consumer on one channel, the engine's blocks in full.
BlockMessages == {AssistantMessage(c) : c \in Contents} \cup {SystemMessage}

NextStream ==
  \/ ServerStart
  \/ \E q \in QueryIds, w \in {"W1", "W2/"}, r \in {None, "s1"} :
       ProcessQuery("p1", q, "C1", w, r)
  \/ \E m \in BlockMessages \cup {ResultMessage("s2")} : EngineMessage("p1", m)
  \/ EngineEnd("p1")
  \/ EngineRaise("p1")
  \/ Resume("p1")
  \/ CloseSession("C1")

SpecStream == Init /\ [][NextStream]_vars

\* One consumer issues queries one after another, with every input and every
\* token the engine may report, while sessions are closed, evicted and cleared.
TokenMessages == {ResultMessage(s) : s \in {Empty} \cup Tokens}

NextRegistry ==
  \/ ServerStart
  \/ \E q \in QueryIds, c \in Channels, w \in Workspaces, r \in ResumeIds :
       ProcessQuery("p1", q, c, w, r)
  \/ \E m \in TokenMessages : EngineMessage("p1", m)
  \/ EngineEnd("p1")
  \/ EngineRaise("p1")
  \/ Resume("p1")
  \/ \E c \in Channels : CloseSession(c)
  \/ Tick
  \/ CleanupIdleSessions
  \/ ServerClose
  \/ StopCancel
  \/ StopClear

SpecRegistry == Init /\ [][NextRegistry]_vars

\* Two consumers at once and explicit closes.  Channel names are
\* interchangeable, so the first consumer's channel is called C1.
ServedMessages ==
  [p \in Procs |-> IF p = "p1"
                   THEN {AssistantMessage(<<TextBlock("a")>>), ResultMessage("s1")}
                   ELSE {ResultMessage("s2")}]

Next ==
  \/ ServerStart
  \/ \E r \in {None, "s1"} : ProcessQuery("p1", QueryOf["p1"], "C1", "W1", r)
  \/ \E c \in Channels, r \in {None, "s1"} :
       ProcessQuery("p2", QueryOf["p2"], c, "W1", r)
  \/ \E p \in Procs : \E m \in ServedMessages[p] : EngineMessage(p, m)
  \/ \E p \in Procs : EngineEnd(p)
  \/ \E p \in Procs : EngineRaise(p)
  \/ \E p \in Procs : Resume(p)
  \/ \E c \in Channels : CloseSession(c)

Spec == Init /\ [][Next]_vars

\* The websocket server from start to stop, beside one direct consumer.
NextServer ==
  \/ ServerStart
  \/ \E k \in Conns : Accept(k)
  \/ \E k \in Conns : Disconnect(k)
  \/ \E k \in Conns, f \in Frames : HandleMessage(k, f)
  \/ \E c \in Channels, r \in {None, "s1"} : ProcessQuery("p1", "q1", c, "W1", r)
  \/ \E m \in ServedMessages["p1"] : EngineMessage("p1", m)
  \/ EngineEnd("p1")
  \/ EngineRaise("p1")
  \/ Resume("p1")
  \/ Tick
  \/ CleanupIdleSessions
  \/ ServerClose
  \/ StopCancel
  \/ StopClear

SpecServer == Init /\ [][NextServer]_vars

\* The decoder alone, on every object.
NextDecode == \E data \in Objects : ParseInbound(data)

SpecDecode == Init /\ [][NextDecode]_vars

\* One query waits on an engine that never answers while a second consumer
\* works, sessions are closed and the reaper sweeps.  The second consumer keeps
\* asking for the next message and its engine's stream comes to an end.
NextIndependent ==
  \/ ServerStart
  \/ ProcessQuery("p1", "q1", "C1", "W1", None)
  \/ \E c \in Channels : ProcessQuery("p2", "q2", c, "W1", None)
  \/ \E m \in ServedMessages["p1"] : EngineMessage("p2", m)
  \/ EngineEnd("p2")
  \/ EngineRaise("p2")
  \/ Resume("p2")
  \/ \E c \in Channels : CloseSession(c)
  \/ Tick
  \/ CleanupIdleSessions

SpecIndependent ==
  /\ Init
  /\ [][NextIndependent]_vars
  /\ WF_vars(EngineEnd("p2") \/ EngineRaise("p2"))
  /\ WF_vars(Resume("p2"))

\* A started manager that is never stopped: one consumer, the clock and the
\* reaper, whose task the event loop resumes whenever its sleep is over.
NextReaper ==
  \/ ServerStart
  \/ \E c \in Channels : ProcessQuery("p1", "q1", c, "W1", None)
  \/ \E m \in ServedMessages["p1"] : EngineMessage("p1", m)
  \/ EngineEnd("p1")
  \/ EngineRaise("p1")
  \/ Resume("p1")
  \/ Tick
  \/ CleanupIdleSessions

SpecReaper == Init /\ [][NextReaper]_vars /\ WF_vars(CleanupIdleSessions)

\* ------------------------------------------------------------- properties
Last(s) == s[Len(s)]

Terminals(s) == Len(SelectSeq(s, IsTerminal))

NonTerminals(s) == SelectSeq(s, LAMBDA m : ~IsTerminal(m))

InFlight(p) == pc[p] # "idle"

\* The message the protocol prescribes for block b of invocation p.
Image(p, b) ==
  [type |-> IF b.block = "TextBlock" THEN "text" ELSE "tool_use",
   query_id |-> query_id[p], channel_id |-> channel_id[p], body |-> b.v]

ImageSeq(p, blocks) == [i \in 1 .. Len(blocks) |-> Image(p, blocks[i])]

\* C1: one invocation of process_query emits exactly one terminal message (done
\* or error), whatever the engine delivered and wherever it failed, and that
\* message is the last one it emits: while it runs, a terminal message is only
\* ever the last of `out` and is there exactly when the generator is suspended
\* at its final yield; and the generator returns only from that yield.
C1_TerminalLast ==
  \A p \in Procs :
    /\ \A i \in 1 .. Len(out[p]) : IsTerminal(out[p][i]) => i = Len(out[p])
    /\ (pc[p] \in {"done", "error"}) <=> (out[p] # <<>> /\ IsTerminal(Last(out[p])))
    /\ pc[p] = "done" => Last(out[p]).type = "done"
    /\ pc[p] = "error" => Last(out[p]).type = "error"

C1_ReturnsAfterTerminal ==
  \A p \in Procs :
    (InFlight(p) /\ ~InFlight(p)') =>
      (Terminals(out[p]) = 1 /\ IsTerminal(Last(out[p])))

\* C1: process_query emits exactly one terminal message, and emits it last.
C1_ExactlyOneTerminal == [] C1_TerminalLast /\ [][C1_ReturnsAfterTerminal]_vars

\* C1 witness: the engine failed after two messages had been relayed.
C1_Witness ==
  /\ pc["p1"] = "error"
  /\ Len(out["p1"]) = 3
  /\ Last(out["p1"]).type = "error"

\* C2: for every well-formed Query frame a connection loop has read, exactly one
\* terminal message has been written on that connection once the loop is no
\* longer busy with a query.
C2_TerminalPerQuery ==
  \A k \in Conns : conn[k] # "busy" => Terminals(written[k]) = queriesRead[k]

C4_MirrorsEngineOrder ==
  \A p \in Procs :
    /\ NonTerminals(out[p]) \o ImageSeq(p, SelectSeq(pending[p], TextOrTool))
         = ImageSeq(p, seen[p])
    /\ pc[p] \in {"engine", "done", "error"} => NonTerminals(out[p]) = ImageSeq(p, seen[p])

\* C4 witness: a tool block, then a text block, then a token; then done.
C4_Witness ==
  /\ pc["p1"] = "done"
  /\ Len(out["p1"]) = 3
  /\ out["p1"][1].type = "tool_use"
  /\ out["p1"][2].type = "text"
  /\ reported["p1"] = "s2"

\* C5: when the engine has reported a non-empty token and the query ends with
\* done, done's session_id is the last token reported.
C5_DoneCarriesLastToken ==
  \A p \in Procs :
    (pc[p] = "done" /\ reported[p] # Empty) => Last(out[p]).body = reported[p]

\* C5 witness: the engine reported s2 last and the query ended with done.
C5_Witness ==
  /\ pc["p1"] = "done"
  /\ reported["p1"] = "s2"
  /\ Last(out["p1"]).body = "s2"

\* C6: when the stream ends and the engine has reported no token, done's
\* session_id is the resumption_id the session holds at that moment, or the
\* empty string if it holds none.
C6_DoneFallsBackToSession ==
  \A p \in Procs :
    (pc[p] = "engine" /\ pc'[p] = "done" /\ reported[p] = Empty) =>
      Last(out'[p]).body =
        (IF heap[session[p]].session_id = None
         THEN Empty ELSE heap[session[p]].session_id)

\* C6: every step that ends a token-less stream emits done with the session's
\* current resumption_id, or the empty string.
C6_DoneSessionId == [][C6_DoneFallsBackToSession]_vars

\* C6 witness: p1 is told nothing by the engine and ends with the token the
\* other consumer's query left in the session they share.
C6_Witness ==
  /\ pc["p1"] = "done"
  /\ reported["p1"] = Empty
  /\ Last(out["p1"]).body = "s2"

\* C7: no two distinct live ChannelSession records have the same channel_id.
C7_OneSessionPerChannel ==
  \A a \in DOMAIN heap : \A b \in DOMAIN heap :
    heap[a].channel_id = heap[b].channel_id => a = b

IsCall == call'.op = "process_query" /\ call' # call

\* C8: a get_or_create for a channel whose entry has not been removed since the
\* previous get_or_create returns the record that call returned; and every
\* get_or_create leaves the record's last_activity at the current time, which
\* is not before what it was.
C8_SameRecord ==
  IsCall =>
    LET c == call'.channel_id
        o == session'[call'.proc]
    IN /\ heap'[o].last_activity = now
       /\ returned[c] # NoRef =>
            /\ o = returned[c]
            /\ heap'[o].last_activity >= heap[o].last_activity

\* C8: every get_or_create step reuses the record of the channel and stamps it
\* with the current time.
C8_IdempotentReuse == [][C8_SameRecord]_vars

\* C8 witness: a record created at time 0 is returned again at a later time.
C8_Witness ==
  /\ call.op = "process_query"
  /\ call.reused
  /\ now = MaxTime
  /\ heap[session[call.proc]].last_activity = MaxTime

\* C9: a get_or_create that finds a session changes nothing but that session's
\* last_activity: its workspace and resumption_id stay, whatever the arguments,
\* and so does every other record and the registry itself.
C9_ReuseFrame ==
  (IsCall /\ sessions[call'.channel_id] # NoRef) =>
    /\ sessions' = sessions
    /\ heap' = [heap EXCEPT ![sessions[call'.channel_id]].last_activity = now]

\* C9: every get_or_create step that finds a session changes only that
\* session's last_activity.
C9_ReuseIgnoresArguments == [][C9_ReuseFrame]_vars

\* C9 witness: a reuse whose workspace and resume_id both differ from the
\* session's, with the other channel's session in the registry.
C9_Witness ==
  /\ call.op = "process_query"
  /\ call.reused
  /\ call.workspace # heap[session[call.proc]].workspace
  /\ call.resume_id = "s1"
  /\ heap[session[call.proc]].session_id = "s2"
  /\ \A c \in Channels : sessions[c] # NoRef

\* C10: a query for a channel with no registry entry creates a record whose
\* resumption_id is the session_id the query supplied (None if it supplied
\* none), in the query's workspace, and enters it in the registry.
C10_FreshSession ==
  (IsCall /\ sessions[call'.channel_id] = NoRef) =>
    LET o == sessions'[call'.channel_id]
    IN /\ o # NoRef
       /\ o \notin DOMAIN heap
       /\ session'[call'.proc] = o
       /\ heap'[o] = [channel_id |-> call'.channel_id,
                      workspace |-> Path(call'.workspace),
                      last_activity |-> now, session_id |-> call'.resume_id]

\* C10: every get_or_create step that finds no session creates one holding
\* exactly the supplied resume_id.
C10_NoTokenSurvives == [][C10_FreshSession]_vars

\* C10 witness: after shutdown cleared the registry, a query without a
\* session_id gets a session without a token.
C10_Witness ==
  /\ call.op = "process_query"
  /\ ~call.reused
  /\ call.resume_id = None
  /\ phase = "stopped"
  /\ heap[session[call.proc]].session_id = None

\* The channels whose registry entry this step removes.
Removed == {c \in Channels : sessions[c] # NoRef /\ sessions'[c] # sessions[c]}

IsIdle(c) == now - heap[sessions[c]].last_activity > IdleTimeout

\* C11: one idle sweep removes exactly the sessions with
\* now - last_activity > idle_timeout and keeps, untouched, every session with
\* now - last_activity <= idle_timeout; the sessions it closes are the ones it
\* removes.
C11_SweepStep ==
  call'.op = "sweep" =>
    /\ \A c \in Channels :
         sessions[c] # NoRef =>
           IF IsIdle(c)
           THEN sessions'[c] = NoRef
           ELSE sessions'[c] = sessions[c] /\ heap'[sessions[c]] = heap[sessions[c]]
    /\ \A c \in Channels : sessions[c] = NoRef => sessions'[c] = NoRef
    /\ call'.closed = {sessions[c] : c \in Removed}

\* C11: every sweep removes and closes exactly the idle sessions.
C11_SweepRemovesExactlyIdle == [][C11_SweepStep]_vars

\* C11 witness: a sweep has closed one session and kept another whose idle time
\* is exactly the timeout.
C11_Witness ==
  /\ call.op = "sweep"
  /\ Cardinality(call.closed) = 1
  /\ \E c \in Channels :
       sessions[c] # NoRef /\ now - heap[sessions[c]].last_activity = IdleTimeout

\* C12: a session the reaper removes has the last_activity it had when the
\* sweep built its list of idle channels: either the list is built in this very
\* step, or the session still shows the last_activity the list was built from.
C12_RemovedAsSeen ==
  call'.op = "sweep" =>
    \A c \in Removed :
      IF c \in DOMAIN to_close
      THEN heap[sessions[c]].last_activity = to_close[c]
      ELSE to_close = <<>> /\ IsIdle(c)

\* C12: the reaper never removes a session touched after the sweep's snapshot.
C12_NoTouchedSessionRemoved == [][C12_RemovedAsSeen]_vars

\* C12 witness: a sweep has removed an idle session and kept one that a query
\* touched at the current time.
C12_Witness ==
  /\ call.op = "sweep"
  /\ call.closed # {}
  /\ \E p \in Procs :
       /\ InFlight(p)
       /\ sessions[channel_id[p]] = session[p]
       /\ heap[session[p]].last_activity = now

\* C13: a close_session frame removes the registry entry of its channel, if
\* any, leaves the other entries alone, and writes nothing on any connection;
\* no generator yields a message in that step either.
C13_CloseSessionFrame ==
  \A k \in Conns :
    (call'.op = "close_session" /\ call'.proc = k) =>
      /\ sessions'[call'.channel_id] = NoRef
      /\ \A c \in Channels \ {call'.channel_id} : sessions'[c] = sessions[c]
      /\ written' = written
      /\ out' = out

\* C13: every CloseSession message removes its entry and is answered by nothing.
C13_CloseSessionSilent == [][C13_CloseSessionFrame]_vars

\* C13 witness: a connection's close_session frame has removed the session of
\* a channel that a direct consumer's query had created.
C13_Witness ==
  /\ call.op = "close_session"
  /\ call.proc \in Conns
  /\ call.closed # {}
  /\ sessions[call.channel_id] = NoRef
  /\ written[call.proc] = <<>>

\* The in-flight queries whose session is no longer the registry's entry.
Detached(p) == InFlight(p) /\ sessions[channel_id[p]] # session[p]

\* C14: close_session removes the entry in the same step and changes nothing
\* of any generator in flight, nor the record its local `session` refers to.
C14_CloseStep ==
  call'.op = "close_session" =>
    /\ sessions'[call'.channel_id] = NoRef
    /\ \A p \in Procs :
         InFlight(p) =>
           /\ session[p] \in DOMAIN heap'
           /\ heap'[session[p]] = heap[session[p]]
           /\ <<pc[p], pending[p], out[p], session[p], result_session_id[p]>>'
                = <<pc[p], pending[p], out[p], session[p], result_session_id[p]>>

\* C14: a query whose session was closed under it keeps its record, has relayed
\* the engine's blocks so far in order, can always take its next step, and has
\* a terminal message last once it is at its final yield.
C14_DetachedQueryRuns ==
  \A p \in Procs :
    Detached(p) =>
      /\ session[p] \in DOMAIN heap
      /\ NonTerminals(out[p]) \o ImageSeq(p, SelectSeq(pending[p], TextOrTool))
           = ImageSeq(p, seen[p])
      /\ pc[p] = "engine" => ENABLED EngineEnd(p) /\ ENABLED EngineRaise(p)
      /\ pc[p] \in {"yield", "done", "error"} => ENABLED Resume(p)
      /\ pc[p] \in {"done", "error"} => IsTerminal(Last(out[p]))

\* C14: close_session does not interrupt a process_query in flight.
C14_CloseDoesNotInterrupt == [][C14_CloseStep]_vars /\ [] C14_DetachedQueryRuns

\* C14 witness: the session was closed while the query was in flight, and the
\* query has relayed two blocks and ended with done.
C14_Witness ==
  /\ pc["p1"] = "done"
  /\ sessions["C1"] = NoRef
  /\ Len(out["p1"]) = 3
  /\ Last(out["p1"]).type = "done"

\* C15: a malformed or unknown frame (not JSON, JSON that is no object, no or
\* an unknown type, a missing or mistyped field) writes nothing, leaves the
\* registry as it is, and leaves the connection loop open for the next frame.
C15_MalformedFrame ==
  \A k \in Conns :
    (call'.op = "malformed" /\ call'.proc = k) =>
      /\ written' = written
      /\ sessions' = sessions
      /\ conn'[k] = "open"

\* C15: every malformed frame is dropped and the loop reads on.
C15_MalformedIgnored == [][C15_MalformedFrame]_vars

C17_QueryStep ==
  \A k \in Conns :
    /\ queriesRead'[k] > queriesRead[k] => conn[k] = "open" /\ conn'[k] = "busy"
    /\ conn[k] = "busy" => queriesRead'[k] = queriesRead[k]
    /\ (conn[k] = "busy" /\ conn'[k] # "busy") =>
         written'[k] # <<>> /\ IsTerminal(Last(written'[k]))

\* C17: a query's messages, its terminal message included, are written before
\* the connection's next frame is read.
C17_QueryWrittenBeforeNextRead == [][C17_QueryStep]_vars

\* C18: a failure of the engine makes the generator yield one error message
\* with the query's ids, after which its output holds that one terminal message
\* and no done; and when the generator of a connection's query returns from
\* there, the connection loop is open again.
C18_FailureStep ==
  \A p \in Procs :
    /\ (call'.op = "engine_raised" /\ call'.proc = p) =>
         /\ pc'[p] = "error"
         /\ Len(out'[p]) = Len(out[p]) + 1
         /\ Last(out'[p]).type = "error"
         /\ Last(out'[p]).query_id = query_id[p]
         /\ Last(out'[p]).channel_id = channel_id[p]
         /\ \A i \in 1 .. Len(out'[p]) : out'[p][i].type # "done"
         /\ Terminals(out'[p]) = 1
    /\ (pc[p] = "error" /\ pc'[p] # "error") =>
         /\ pc'[p] = "idle"
         /\ written' = written
         /\ owner[p] \in Conns => conn'[owner[p]] = "open"

C19_ErrorKeepsToken ==
  \A p \in Procs : pc[p] = "error" => heap[session[p]].session_id = started[p]

\* C20: the step that completes stop() empties the registry and closes every
\* session it held; whatever removes an entry closes its session, so a session
\* that was in the registry when stop began and is gone before stop's own loop
\* has been closed as well; and once stop has cancelled the reaper there is no
\* sweep.
C20_StopStep ==
  /\ call'.op = "stop" =>
       /\ \A c \in Channels : sessions'[c] = NoRef
       /\ call'.closed = {sessions[c] : c \in Channels} \ {NoRef}
       /\ phase' = "stopped"
  /\ \A c \in Removed : sessions[c] \in call'.closed
  /\ phase \in {"cancelled", "stopped"} => call'.op # "sweep"

\* C20: after stop() the registry is empty, its sessions are closed, and the
\* reaper sweeps no more.
C20_StopDrains == [][C20_StopStep]_vars

\* C20 witness: stop has closed the sessions of both channels.
C20_Witness ==
  /\ call.op = "stop"
  /\ phase = "stopped"
  /\ Cardinality(call.closed) = 2
  /\ \A c \in Channels : sessions[c] = NoRef

\* C21: while one process_query waits on its engine, nothing of anybody else
\* is held up: another consumer can start a query on any channel, take its
\* query's next step, close any session, and the reaper can sweep.
C21_OthersEnabled ==
  pc["p1"] = "engine" =>
    /\ pc["p2"] = "idle" =>
         \A c \in Channels : ENABLED ProcessQuery("p2", "q2", c, "W1", None)
    /\ pc["p2"] = "engine" => ENABLED EngineEnd("p2") /\ ENABLED EngineRaise("p2")
    /\ pc["p2"] \in {"yield", "done", "error"} => ENABLED Resume("p2")
    /\ \A c \in Channels : ENABLED CloseSession(c)
    /\ ReaperAlive => ENABLED CleanupIdleSessions

C22_EngineOptions ==
  IsCall =>
    LET c == call'.channel_id
    IN call'.options =
         IF sessions[c] = NoRef
         THEN [cwd |-> Path(call'.workspace), resume |-> call'.resume_id]
         ELSE [cwd |-> heap[sessions[c]].workspace,
               resume |-> heap[sessions[c]].session_id]

\* C22: every process_query invokes the engine with the resolved session's
\* workspace and resumption token.
C22_EngineGetsSessionValues == [][C22_EngineOptions]_vars

\* C22 witness: a reused session's directory and token went to the engine
\* though the request named another directory and another token.
C22_Witness ==
  /\ call.op = "process_query"
  /\ call.reused
  /\ call.workspace = "W2/"
  /\ call.resume_id = "s1"
  /\ call.options = [cwd |-> "W1", resume |-> "s2"]

\* C23: a registry entry appears, or is replaced by another record, only in
\* the step in which a process_query on that channel starts; so after a
\* close_session(C) with no query on C started since, the registry holds no
\* session for C, whatever the queries that were in flight do when they finish.
C23_EntryOnlyFromStart ==
  [][\A c \in Channels :
       (sessions'[c] # sessions[c] /\ sessions'[c] # NoRef) =>
         (IsCall /\ call'.channel_id = c)]_vars

\* C23 witness: a query finished with done after its channel's entry was
\* removed; the engine's token is on the record it holds, and the registry
\* has no entry for the channel.
C23_Witness ==
  /\ pc["p1"] = "done"
  /\ sessions["C1"] = NoRef
  /\ heap[session["p1"]].session_id = "s2"
  /\ Last(out["p1"]).type = "done"

\* C23 as stated: a query that completes while its channel has no registry
\* entry leaves the registry holding a session for the channel again.
C23_CompletionRecreatesEntry ==
  [][\A p \in Procs :
       (pc[p] = "engine" /\ pc'[p] = "done" /\ sessions[channel_id[p]] = NoRef) =>
         sessions'[channel_id[p]] # NoRef]_vars

\* C24: the sweep never fails while it removes what it collected, and the
\* reaper is not lost: no sweep ends in an exception, the reaper's task is
\* never ended by one, and while the manager runs the reaper can always sweep
\* again.
C24_SweepNeverFails ==
  /\ [][call'.op # "sweep_raised"]_vars
  /\ [](to_close # KeyError)
  /\ [](ReaperAlive => ENABLED CleanupIdleSessions)

\* C24 witness: one sweep removed the sessions of two channels, after a
\* close_session had removed an earlier session of one of them.
C24_Witness ==
  /\ call.op = "sweep"
  /\ Cardinality(call.closed) = 2
  /\ 12 \in call.closed

\* C25: while the manager is started and not stopped, a session whose
\* inactivity exceeds the idle timeout is eventually removed from the registry,
\* unless it is accessed again first; whether queries are in flight or not.
C25_IdleEventuallyRemoved ==
  \A c \in Channels :
    (phase = "running" /\ sessions[c] # NoRef /\ IsIdle(c))
      ~> (sessions[c] = NoRef \/ ~IsIdle(c))

\* C25 witness: with a query in flight on one channel, the reaper removed the
\* idle session of the other.
C25_Witness ==
  /\ call.op = "sweep"
  /\ Cardinality(call.closed) = 1
  /\ pc["p1"] = "engine"
  /\ sessions[channel_id["p1"]] = session["p1"]

\* C26: no sweep removes the session of a channel while a process_query that
\* resolved to that session has not yet produced its terminal message.
C26_NoEvictionInFlight ==
  [][call'.op = "sweep" =>
       \A c \in Removed :
         ~\E p \in Procs : /\ pc[p] \notin {"idle", "done", "error"}
                           /\ channel_id[p] = c
                           /\ session[p] = sessions[c]]_vars

\* C27: when a query ends with done carrying a token the engine reported, and
\* no close_session was issued while it ran, the registry holds at that moment
\* a session for the query's channel whose resumption_id is that token.
C27_DoneTokenInRegistry ==
  [][\A p \in Procs :
       (pc[p] = "engine" /\ pc'[p] = "done" /\ reported[p] # Empty) =>
         LET c == channel_id[p]
         IN /\ sessions'[c] # NoRef
            /\ heap'[sessions'[c]].session_id = Last(out'[p]).body]_vars

\* The step is a call of process_query or close_session for channel d.
C28_CallOn(d) ==
  call'.op \in {"process_query", "close_session"} /\ call'.channel_id = d

\* The step is a process_query generator of channel d storing the token it
\* holds in the record it resolved to, which is d's registered record.
C28_TokenOn(d) ==
  \E p \in Procs :
    /\ pc[p] = "engine"
    /\ channel_id[p] = d
    /\ session[p] = sessions[d]
    /\ heap'[sessions[d]] =
         [heap[sessions[d]] EXCEPT !.session_id = result_session_id'[p]]

\* An entry is added, removed or replaced only by a call for its channel (or
\* by the reaper or stop); a registered record is written to only by a call
\* or a generator of its channel.
C28_Step ==
  \A d \in Channels :
    /\ sessions'[d] # sessions[d] =>
         (call'.op \in {"sweep", "stop"} \/ C28_CallOn(d))
    /\ (sessions'[d] = sessions[d] /\ sessions[d] # NoRef
          /\ heap'[sessions[d]] # heap[sessions[d]]) =>
         (C28_CallOn(d) \/ C28_TokenOn(d))

\* C28: a step of a process_query or of a close_session on channel C leaves
\* the registry entry of every other channel as it was (the entry itself and
\* the record's workspace, resumption_id and last_activity); a record is
\* registered under its own channel and a generator holds a record of its own
\* channel.
C28_ChannelsIsolated ==
  /\ [][C28_Step]_vars
  /\ [](\A c \in Channels : sessions[c] # NoRef => heap[sessions[c]].channel_id = c)
  /\ [](\A p \in Procs : InFlight(p) => heap[session[p]].channel_id = channel_id[p])

\* C28 witness: close_session on C1 removed C1's session while C2's entry holds
\* the token and the access time its own query gave it.
C28_Witness ==
  /\ call.op = "close_session"
  /\ call.channel_id = "C1"
  /\ call.closed # {}
  /\ sessions["C2"] # NoRef
  /\ heap[sessions["C2"]].session_id = "s1"
  /\ heap[sessions["C2"]].last_activity = 1

====
